---------------------------- MODULE Spec2Model ----------------------------
(***************************************************************************)
(* Model of src/app.py (pasarde/recipe_app): the /interact like/save       *)
(* toggle with its session-based double-click guard, and the search        *)
(* history bookkeeping of the home view and the suggestion endpoint.       *)
(*                                                                         *)
(* The relational store is a set of rows per table.  A request reads rows  *)
(* into its own ORM objects (a snapshot), changes them in memory and       *)
(* writes them back at db.session.commit(); requests of different workers  *)
(* interleave between those steps.  The Flask session is the default       *)
(* signed cookie: a request works on the copy the browser sent, and the    *)
(* browser only sees what the response writes back.                        *)
(***************************************************************************)
EXTENDS Integers, Sequences, FiniteSets, Bags, TLC

\* ------------------------------------------------------------------ bounds
MaxRequests == 3        \* interact requests issued in one behaviour
MaxSearches == 3        \* search requests issued in one behaviour
NumWorkers  == 2        \* requests that can be in flight at once
MaxMeals    == 2        \* records in one provider answer

\* ------------------------------------------------------------ input domains
Sessions      == 1..3                       \* browser sessions (cookies)
userOf        == <<1, 2, 1>>                \* login of each browser session
UserRecipeIds == 1..2                       \* rows of the user_recipe table
\* the forms posted to /interact, as (session, source, recipe_id, action): two
\* users liking user recipe 1, one of them also from a second browser, the
\* other action on it, another user recipe, a user recipe id that does not
\* exist, a provider recipe with the id of recipe 1
Forms         == { <<1, "user", 1, "like">>, <<2, "user", 1, "like">>,
                   <<3, "user", 1, "like">>,
                   <<1, "user", 1, "save">>, <<2, "user", 2, "save">>,
                   <<2, "user", 3, "like">>, <<1, "spoonacular", 1, "like">> }
Endpoints     == { "index", "suggest" }     \* GET / and GET /api/suggest
\* (query, cuisine, region) of a search: one triple, the triples that differ
\* from it in one place, and requests without a query
Triples       == { <<"soto", "indonesian", "Java">>, <<"salad", "indonesian", "Java">>,
                   <<"soto", "western", "Java">>, <<"soto", "indonesian", "All Regions">>,
                   <<"", "western", "All Regions">>, <<"", "indonesian", "Java">> }
Logged        == { t \in Triples : t[1] # "" }

\* JSON null (Python None), and the image a normalized recipe falls back to
None == "<None>"
DefaultImage == "/static/assets/default_recipe.jpg"

\* the lists a provider answers with: records of the provider and values
\* that are not records, up to MaxMeals of them
SeqsUpTo(S, n) == UNION { [1..k -> S] : k \in 0..n }

\* Spoonacular records: with an image, without the key, with an empty and a
\* null image, without an id
SpoonRecords  == { [id |-> 1, title |-> "Chicken Soup", image |-> "https://img.example/1.jpg"],
                   [id |-> 12, title |-> "Greek Salad"],
                   [id |-> 3, title |-> "Creamy Pasta", image |-> ""],
                   [id |-> 4, title |-> "Beef Stew", image |-> None],
                   [title |-> "Untitled"],
                   [nondict |-> TRUE] }
\* TheMealDB records: area and name that match no region, a name and an area
\* that match "Java", an area that matches "Sumatra", empty and null
\* thumbnails, a record without an id
MealRecords   == { [idMeal |-> "52", strMeal |-> "Soto Betawi", strArea |-> "Indonesian",
                    strCategory |-> "Beef", strMealThumb |-> "https://img.example/52.jpg"],
                   [idMeal |-> "53", strMeal |-> "Javanese Soto", strArea |-> "Indonesian",
                    strCategory |-> "Chicken", strMealThumb |-> ""],
                   [idMeal |-> "54", strMeal |-> "Gado Gado", strArea |-> "West Java",
                    strCategory |-> "Vegetarian", strMealThumb |-> "https://img.example/54.jpg"],
                   [idMeal |-> "55", strMeal |-> "Soto Padang", strArea |-> "Sumatra",
                    strCategory |-> "Beef", strMealThumb |-> None],
                   [strMeal |-> "Soto Java"],
                   [nondict |-> TRUE] }
ErrorStatuses == { 404, 500 }
Queries       == { " Soto ", "", "rendang", "rujak" }
Regions       == { None, "All Regions", "Java", "sumatra" }
Numbers       == { 1, 2 }

\* weather as get_weather returns it (lines 337-342), and no weather
NoWeather     == [none |-> TRUE, city |-> "", condition |-> "", temp |-> 0,
                  weather_main |-> ""]
Weathers      == { NoWeather } \cup
                 { [none |-> FALSE, city |-> "Jakarta", condition |-> c[1], temp |-> t,
                    weather_main |-> c[2]] :
                   c \in { <<"light rain", "Rain">>, <<"clear sky", "Clear">>,
                           <<"thunderstorm with light rain", "Thunderstorm">> },
                   t \in { 19, 20, 25, 30, 31 } }
\* the region of a recommendation: none, the home view's default, a region
EngineRegions == { None, "", "All Regions", "Java" }
EngineNumbers == { 1, 2, 3 }
\* rows of user_recipe as the searches read them
UserRows      == { [id |-> 1, title |-> "Sayur Asem", image |-> None],
                   [id |-> 2, title |-> "Soto Kudus", image |-> ""],
                   [id |-> 12, title |-> "Soto Lamongan", image |-> "uploads/soto.jpg"] }
\* rows of search_history that related searches may find: per row its id,
\* query, cuisine, region and the counts it may have (0: the row is absent)
HistoryRows   == << <<1, "soto", "indonesian", "Java", {0, 3, 14}>>,
                   <<2, "soto", "western", "All Regions", {0, 5}>>,
                   <<3, "pizza", "western", "All Regions", {0, 9, 11}>>,
                   <<4, "bakso", "indonesian", "Java", {0, 2, 10}>>,
                   <<5, "sate ayam", "indonesian", "All Regions", {0, 2}>>,
                   <<6, "nasi", "indonesian", "Java", {0, 1}>>,
                   <<7, "salad", "western", "All Regions", {0, 20}>> >>

VARIABLES
    interactions,   \* table interaction: set of rows
    recipes,        \* table user_recipe: id -> [likes, saves]
    cookie,         \* per browser session: the session keys stored in its cookie
    req,            \* the interact requests in flight, a bag of request records
    started,        \* interact requests issued so far
    last,           \* summary of the request that ended last
    sameUser,       \* some request began while one of the same user was in flight
    leaked          \* some request was rejected by a guard key no request held

ivars == <<interactions, recipes, cookie, req, started, last, sameUser, leaked>>

VARIABLES
    history,        \* table search_history: set of rows
    sreq,           \* the search requests in flight, a bag of request records
    sstarted,       \* search requests issued so far
    completed,      \* per (query, cuisine, region): history updates committed
    slast,          \* summary of the search request that ended last
    soverlap        \* some search request began while another was in flight

svars == <<history, sreq, sstarted, completed, slast, soverlap>>

VARIABLES
    call            \* the last call of a provider client, of the recommendation
                    \* engine or of the related searches: its arguments, the
                    \* world it ran in and its result

cvars == <<call>>

\* ---------------------------------------------------------------- helpers
NoRow == [id |-> 0, user_id |-> 0, recipe_source |-> "", recipe_id |-> 0,
          interaction_type |-> ""]
NoRecipe == [found |-> FALSE, likes |-> 0, saves |-> 0]
NoKey == <<0, "", 0, "">>
NoDb == [interactions |-> {}, recipes |-> <<>>]

Max0(n) == IF n > 0 THEN n ELSE 0

NoLast == [status |-> 0, first |-> FALSE, second |-> FALSE, key |-> NoKey,
           count |-> 0, orig |-> 0]

\* the requests in flight
InFlight == BagToSet(req)

\* the bag B with one copy of q replaced by q2, and with one copy of q removed
Replace(B, q, q2) == (B (-) SetToBag({q})) (+) SetToBag({q2})
Remove(B, q) == B (-) SetToBag({q})

\* f"interact_{current_user.id}_{source}_{recipe_id}_{action}"
session_key(q) == <<userOf[q.sid], q.source, q.recipe_id, q.action>>

\* Interaction.query.filter_by(user_id, recipe_source, recipe_id, interaction_type)
filter_by(rows, u, s, i, a) ==
    { x \in rows : x.user_id = u /\ x.recipe_source = s /\ x.recipe_id = i
                   /\ x.interaction_type = a }

KeyRows(rows, k) == filter_by(rows, k[1], k[2], k[3], k[4])

\* the likes (saves) column a toggle with key k maintains; 0 when there is none
KeyCount(recs, k) ==
    IF k[2] = "user" /\ k[3] \in DOMAIN recs
    THEN (IF k[4] = "like" THEN recs[k[3]].likes ELSE recs[k[3]].saves)
    ELSE 0

\* the primary key the store gives a new interaction row (SQLite rowid: max + 1)
NewId(rows) ==
    IF rows = {} THEN 1
    ELSE 1 + (CHOOSE m \in { x.id : x \in rows } : \A y \in rows : y.id <= m)

\* session.pop(session_key, None) in the finally clause
session_pop_keep(sess, key) == sess
session_pop(sess, key) == sess \ {key}

\* UserRecipe.query.get(recipe_id)
get(recs, i) ==
    IF i \in DOMAIN recs
    THEN [found |-> TRUE, likes |-> recs[i].likes, saves |-> recs[i].saves]
    ELSE NoRecipe

\* max(0, user_recipe.likes - 1)  /  user_recipe.likes += 1
undo_count_skip(n) == n
undo_count(n) == Max0(n - 1)
do_count_twice(n) == n + 2
do_count(n) == n + 1

\* the ORM writes a column back only when its value differs from the loaded one
WriteBack(recs, i, loaded, likes, saves) ==
    [recs EXCEPT ![i] = [likes |-> IF likes = loaded.likes THEN @.likes ELSE likes,
                         saves |-> IF saves = loaded.saves THEN @.saves ELSE saves]]

\* what db.session.commit() flushes for request q: the toggle of lines 738-756,
\* computed from the objects the request loaded
Flush(rows, recs, q) ==
    LET ur    == q.user_recipe
        u     == userOf[q.sid]
        likes == IF q.action = "like"
                 THEN (IF q.existing # NoRow THEN undo_count(ur.likes) ELSE do_count(ur.likes))
                 ELSE ur.likes
        saves == IF q.action = "save"
                 THEN (IF q.existing # NoRow THEN undo_count(ur.saves) ELSE do_count(ur.saves))
                 ELSE ur.saves
    IN  [interactions |->
            IF q.existing # NoRow
            THEN { x \in rows : x.id # q.existing.id }
            ELSE rows \cup {[id |-> NewId(rows), user_id |-> u, recipe_source |-> q.source,
                             recipe_id |-> q.recipe_id, interaction_type |-> q.action]},
         recipes |->
            IF ur.found THEN WriteBack(recs, q.recipe_id, ur, likes, saves) ELSE recs]

\* db.session.rollback(): the flushed, uncommitted changes are discarded
rollback(committed, flushed) == committed

\* what is remembered of request q when it ends with status st: whether it
\* ran alone and toggled an absent record of a user recipe (first), or ran
\* alone, toggled, and directly followed such a request for the same key (second)
Summary(q, st) ==
    LET k   == session_key(q)
        fst == /\ st = 200 /\ ~q.overlap /\ k[2] = "user"
               /\ KeyRows(q.pre.interactions, k) = {}
        snd == st = 200 /\ ~q.overlap /\ last.first /\ last.key = k
    IN  [status |-> st, first |-> fst, second |-> snd,
         key   |-> IF fst \/ snd THEN k ELSE NoKey,
         count |-> IF fst THEN KeyCount(q.pre.recipes, k) ELSE 0,
         orig  |-> IF snd THEN last.count ELSE 0]

\* ------------------------------------------------- search history helpers
NoHist == [id |-> 0, query |-> "", cuisine |-> "", region |-> "", count |-> 0]

NoSLast == [status |-> 0, histFailed |-> FALSE]

\* the search requests in flight
SInFlight == BagToSet(sreq)

\* db.session.query(SearchHistory).filter_by(query=query, cuisine=cuisine, region=region)
hist_filter_any_region(rows, t) ==
    { x \in rows : x.query = t[1] /\ x.cuisine = t[2] }
hist_filter_by(rows, t) ==
    { x \in rows : x.query = t[1] /\ x.cuisine = t[2] /\ x.region = t[3] }

NewHistId(rows) ==
    IF rows = {} THEN 1
    ELSE 1 + (CHOOSE m \in { x.id : x \in rows } : \A y \in rows : y.id <= m)

\* what db.session.commit() flushes for search request q (lines 445-451):
\* existing.count += 1 on the loaded row, or a new row with the default count 1
HistFlush(rows, q) ==
    IF q.existing # NoHist
    THEN { IF x.id = q.existing.id THEN [x EXCEPT !.count = q.existing.count + 1] ELSE x
           : x \in rows }
    ELSE rows \cup {[id |-> NewHistId(rows), query |-> q.triple[1],
                     cuisine |-> q.triple[2], region |-> q.triple[3], count |-> 1]}

\* the except clause of the history block: the error is logged and flashed, the
\* session is not rolled back, so a transaction whose commit failed stays unusable
history_except(tx) == tx

\* ------------------------------------------------------------ text helpers
Uppers == "ABCDEFGHIJKLMNOPQRSTUVWXYZ"
Lowers == "abcdefghijklmnopqrstuvwxyz"
Digits == "0123456789"

\* the one-character string at position i of s
Ch(s, i) == SubSeq(s, i, i)

\* the lower case of every upper-case letter, and the reverse
LowerOf == [c \in { Ch(Uppers, i) : i \in 1..Len(Uppers) } |->
               Ch(Lowers, CHOOSE i \in 1..Len(Uppers) : Ch(Uppers, i) = c)]
UpperOf == [c \in { Ch(Lowers, i) : i \in 1..Len(Lowers) } |->
               Ch(Uppers, CHOOSE i \in 1..Len(Lowers) : Ch(Lowers, i) = c)]

LowerChar(c) == IF c \in DOMAIN LowerOf THEN LowerOf[c] ELSE c
UpperChar(c) == IF c \in DOMAIN UpperOf THEN UpperOf[c] ELSE c

\* str.lower()
RECURSIVE lower(_)
lower(s) == IF s = "" THEN "" ELSE LowerChar(Ch(s, 1)) \o lower(SubSeq(s, 2, Len(s)))

\* str.strip()
RECURSIVE strip(_)
strip(s) ==
    IF s = "" THEN ""
    ELSE IF Ch(s, 1) = " " THEN strip(SubSeq(s, 2, Len(s)))
    ELSE IF Ch(s, Len(s)) = " " THEN strip(SubSeq(s, 1, Len(s) - 1))
    ELSE s

\* str.title(): a letter after a non-letter is upper case, every other lower case
RECURSIVE title_from(_, _)
title_from(s, i) ==
    IF i > Len(s) THEN ""
    ELSE (IF i = 1 \/ Ch(s, i - 1) \notin DOMAIN LowerOf \cup DOMAIN UpperOf
          THEN UpperChar(Ch(s, i)) ELSE LowerChar(Ch(s, i))) \o title_from(s, i + 1)
title(s) == title_from(s, 1)

\* sub in s
Contains(sub, s) ==
    \E i \in 0..(Len(s) - Len(sub)) : SubSeq(s, i + 1, i + Len(sub)) = sub

\* str(n) of a non-negative integer
RECURSIVE str(_)
str(n) == IF n < 10 THEN Ch(Digits, n + 1) ELSE str(n \div 10) \o Ch(Digits, (n % 10) + 1)

\* seq[:n] for n >= 0
Take(seq, n) == SubSeq(seq, 1, IF n < Len(seq) THEN n ELSE Len(seq))

\* ------------------------------------------------------- provider clients
\* a call returns a value or leaves with an exception
Return(v) == [raised |-> FALSE, value |-> v]
Raise == [raised |-> TRUE, value |-> <<>>]

\* a JSON value that is not an object stands in a list as this record
NonDict == [nondict |-> TRUE]
IsDict(r) == "nondict" \notin DOMAIN r

\* dict.get(key, default)
Get(r, key, default) == IF key \in DOMAIN r THEN r[key] ELSE default

\* truth value of a string or None
Truthy(v) == v # None /\ v # ""

\* what requests.get(...) gives: a transport exception (RequestException), or
\* a response with a status and a body.  A body is text that is not JSON, a
\* JSON list, or a JSON object with the keys `keys`; `items` is the list the
\* object holds under its result key ("results", "meals"), `null` says that
\* the value under that key is null
NoBody == [kind |-> "notjson", keys |-> {}, null |-> FALSE, items |-> <<>>]
Transport == [kind |-> "transport", status |-> 0, body |-> NoBody]
Http(st, b) == [kind |-> "http", status |-> st, body |-> b]
JsonList(xs) == [kind |-> "list", keys |-> {}, null |-> FALSE, items |-> xs]
JsonDict(ks, isnull, xs) == [kind |-> "dict", keys |-> ks, null |-> isnull, items |-> xs]

\* lines 125 and 149: one Spoonacular record as a normalized recipe; r["id"] and
\* r["title"] raise when r is not an object or lacks the key
western_record(r) ==
    [id |-> str(r["id"]), title |-> r["title"], source |-> "spoonacular",
     image |-> Get(r, "image", DefaultImage)]

western_records(rs) ==
    IF \E i \in 1..Len(rs) : ~IsDict(rs[i]) \/ {"id", "title"} \ DOMAIN rs[i] # {}
    THEN Raise
    ELSE Return([i \in 1..Len(rs) |-> western_record(rs[i])])

\* lines 119-128.  response.json() raises on a body that is not JSON: a
\* RequestException in requests 2.27 and later (decodeCaught), a plain
\* ValueError before
suggest_western_recipes_by_name_any_status(resp, decodeCaught) ==
    IF resp.kind = "transport" THEN Return(<<>>)
    ELSE IF resp.body.kind = "notjson" THEN (IF decodeCaught THEN Return(<<>>) ELSE Raise)
    ELSE IF resp.body.kind = "list" THEN Raise
    ELSE IF "results" \notin resp.body.keys THEN Return(<<>>)
    ELSE IF resp.body.null THEN Raise
    ELSE western_records(resp.body.items)
suggest_western_recipes_by_name(resp, decodeCaught) ==
    IF resp.kind = "transport" THEN Return(<<>>)
    ELSE IF resp.status # 200 THEN Return(<<>>)
    ELSE IF resp.body.kind = "notjson" THEN (IF decodeCaught THEN Return(<<>>) ELSE Raise)
    ELSE IF resp.body.kind = "list" THEN Raise
    ELSE IF "results" \notin resp.body.keys THEN Return(<<>>)
    ELSE IF resp.body.null THEN Raise
    ELSE western_records(resp.body.items)

\* lines 144-152: the body itself is the list; iterating a JSON object gives
\* its keys, and r["id"] on a key raises
suggest_western_recipes_by_ingredients(resp, decodeCaught) ==
    IF resp.kind = "transport" THEN Return(<<>>)
    ELSE IF resp.status # 200 THEN Return(<<>>)
    ELSE IF resp.body.kind = "notjson" THEN (IF decodeCaught THEN Return(<<>>) ELSE Raise)
    ELSE IF resp.body.kind = "dict"
         THEN (IF resp.body.keys = {} THEN Return(<<>>) ELSE Raise)
    ELSE western_records(resp.body.items)

\* lines 162-217: the fallback catalog (the ingredients and instructions of an
\* entry are not used by the search and are left out)
fallback_recipes == <<
    [id |-> "rendang", title |-> "Beef Rendang", source |-> "fallback",
     image |-> "https://www.themealdb.com/images/media/meals/ypxrvg1515362401.jpg",
     region |-> "Sumatra"],
    [id |-> "soto", title |-> "Soto Ayam", source |-> "fallback",
     image |-> "https://www.themealdb.com/images/media/meals/8mpqzz1508507655.jpg",
     region |-> "Java"],
    [id |-> "gudeg", title |-> "Gudeg Jogja", source |-> "fallback",
     image |-> "https://www.themealdb.com/images/media/meals/1529445893.jpg",
     region |-> "Java"],
    [id |-> "satay", title |-> "Chicken Satay", source |-> "fallback",
     image |-> "https://www.themealdb.com/images/media/meals/1526418975.jpg",
     region |-> "Java"],
    [id |-> "nasi_goreng", title |-> "Nasi Goreng", source |-> "fallback",
     image |-> "https://www.themealdb.com/images/media/meals/1529445893.jpg",
     region |-> "Java"],
    [id |-> "soto_banjar", title |-> "Soto Banjar", source |-> "fallback",
     image |-> "https://www.themealdb.com/images/media/meals/8mpqzz1508507655.jpg",
     region |-> "Kalimantan Selatan"] >>

\* lines 248, 290, 304: [r for r in fallback_recipes if base_query in r["title"].lower()]
fallback_by_query(base_query) ==
    SelectSeq(fallback_recipes, LAMBDA r : Contains(base_query, lower(r.title)))

\* lines 261-264: ... and r.get("region", "").lower() == region.lower()
fallback_by_query_and_region(base_query, region) ==
    SelectSeq(fallback_recipes,
              LAMBDA r : /\ Contains(base_query, lower(r.title))
                         /\ lower(Get(r, "region", "")) = lower(region))

\* lines 283-291 and 297-305: the catalog entries matching the query, formatted
fallback_formatted(base_query, number) ==
    LET rs == fallback_by_query(base_query)
    IN  Take([i \in 1..Len(rs) |->
                 [id |-> rs[i].id, title |-> rs[i].title, source |-> "fallback",
                  image |-> IF Truthy(rs[i].image) THEN rs[i].image ELSE DefaultImage]],
             number)

\* lines 221-240: the meals of the response, [] for a non-200 status, a body
\* that is not JSON or not an object, a missing, null or empty "meals"
parse_meals(resp) ==
    IF resp.status # 200 THEN <<>>
    ELSE IF resp.body.kind # "dict" THEN <<>>
    ELSE IF "meals" \notin resp.body.keys \/ resp.body.null THEN <<>>
    ELSE resp.body.items

\* lines 254-257: does r pass the region filter
passes_region(r, region) ==
    \/ Contains(lower(region), lower(Get(r, "strArea", "")))
    \/ Contains(lower(region), lower(Get(r, "strCategory", "")))
    \/ Contains(lower(region), lower(Get(r, "strMeal", "")))
    \/ lower(Get(r, "region", "")) = lower(region)

\* lines 250-267: filter by region, fall back to the catalog when nothing
\* passes, then truncate
region_filter_truncate_first(results, region, base_query, number) ==
    IF Truthy(region) /\ region # "All Regions"
    THEN LET filtered == SelectSeq(Take(results, number), LAMBDA r : passes_region(r, region))
         IN  IF filtered = <<>>
             THEN Take(fallback_by_query_and_region(base_query, region), number)
             ELSE filtered
    ELSE Take(results, number)
region_filter(results, region, base_query, number) ==
    IF Truthy(region) /\ region # "All Regions"
    THEN LET filtered == SelectSeq(results, LAMBDA r : passes_region(r, region))
         IN  Take(IF filtered = <<>>
                  THEN fallback_by_query_and_region(base_query, region)
                  ELSE filtered, number)
    ELSE Take(results, number)

\* lines 270-278: one provider meal or catalog entry as a normalized recipe
\* (idMeal is a string in the provider's records)
format_meal(r) ==
    [id     |-> IF "idMeal" \in DOMAIN r THEN r["idMeal"] ELSE r["id"],
     title  |-> IF "strMeal" \in DOMAIN r THEN r["strMeal"] ELSE r["title"],
     source |-> IF "idMeal" \in DOMAIN r THEN "themealdb" ELSE "fallback",
     image  |-> IF "strMealThumb" \in DOMAIN r /\ Truthy(r["strMealThumb"])
                THEN r["strMealThumb"]
                ELSE IF Truthy(Get(r, "image", None)) THEN r["image"] ELSE DefaultImage]

\* r["id"] and r["title"] raise KeyError when r has neither form of the key
formattable(r) ==
    /\ \/ "idMeal" \in DOMAIN r \/ "id" \in DOMAIN r
    /\ \/ "strMeal" \in DOMAIN r \/ "title" \in DOMAIN r

\* lines 155-305; only requests.RequestException is caught
suggest_indonesian_recipes_by_name(query, region, number, resp) ==
    LET base_query == lower(strip(query))
    IN  IF resp.kind = "transport" THEN Return(fallback_formatted(base_query, number))
        ELSE
        LET parsed == parse_meals(resp)
        IN  IF \E i \in 1..Len(parsed) : ~IsDict(parsed[i]) THEN Raise   \* meal.get, line 243
            ELSE
            LET results == IF parsed = <<>> THEN fallback_by_query(base_query) ELSE parsed
                cut     == region_filter(results, region, base_query, number)
            IN  IF \E i \in 1..Len(cut) : ~formattable(cut[i]) THEN Raise
                ELSE
                LET formatted_results == [i \in 1..Len(cut) |-> format_meal(cut[i])]
                IN  Return(IF formatted_results = <<>>
                           THEN fallback_formatted(base_query, number)
                           ELSE formatted_results)

\* ---------------------------------------------------- recommendation engine
\* The world a call runs in is a record env: what each provider answers to
\* each query (western, regional), the rows UserRecipe.query.limit() returns
\* (users), and which exception response.json() raises (decodeCaught).

\* lines 352, 470, 550: a user recipe row as a normalized recipe
user_formatted(r) ==
    [id |-> str(r.id), title |-> r.title, source |-> "user",
     image |-> IF Truthy(r.image) THEN r.image ELSE DefaultImage]

\* a call that raises ends the caller too; what the first call returned was
\* appended before the second one raised
Both(a, b) ==
    IF a.raised THEN Raise
    ELSE IF b.raised THEN [raised |-> TRUE, value |-> a.value]
    ELSE Return(a.value \o b.value)

\* random.sample(population, k): any k elements at distinct positions, in any order
random_sample(population, k) ==
    { [i \in 1..k |-> population[p[i]]] :
        p \in { f \in [1..k -> 1..Len(population)] :
                  \A i, j \in 1..k : i # j => f[i] # f[j] } }

\* lines 347-354: the possible results of get_random_recipes(number)
get_random_recipes(number, env) ==
    LET western == suggest_western_recipes_by_name(env.western["main course"],
                                                   env.decodeCaught)
        indo    == suggest_indonesian_recipes_by_name("indonesian", None, number,
                                                      env.regional["indonesian"])
        users   == Take(env.users, number)
        all_recipes == western.value \o indo.value
                       \o [i \in 1..Len(users) |-> user_formatted(users[i])]
    IN  IF western.raised \/ indo.raised THEN { Raise }
        ELSE { Return(x) : x \in random_sample(all_recipes,
                                 IF number < Len(all_recipes) THEN number
                                 ELSE Len(all_recipes)) }

\* lines 361-376: the branch the weather selects
weather_branch_hot_first(weather) ==
    IF weather.temp > 30 THEN "salad"
    ELSE IF Contains("rain", lower(weather.weather_main)) \/ weather.temp < 20 THEN "soup"
    ELSE "random"
weather_branch(weather) ==
    IF Contains("rain", lower(weather.weather_main)) \/ weather.temp < 20 THEN "soup"
    ELSE IF weather.temp > 30 THEN "salad"
    ELSE "random"

\* lines 366-376: the candidates the weather branch appends
weather_candidates_two_random(branch, region, env) ==
    IF branch = "soup"
    THEN { Both(suggest_western_recipes_by_name(env.western["soup"], env.decodeCaught),
                suggest_indonesian_recipes_by_name("soto", region, 1,
                                                   env.regional["soto"])) }
    ELSE IF branch = "salad"
    THEN { Both(suggest_western_recipes_by_name(env.western["salad"], env.decodeCaught),
                suggest_indonesian_recipes_by_name("rujak", region, 1,
                                                   env.regional["rujak"])) }
    ELSE get_random_recipes(2, env)
weather_candidates(branch, region, env) ==
    IF branch = "soup"
    THEN { Both(suggest_western_recipes_by_name(env.western["soup"], env.decodeCaught),
                suggest_indonesian_recipes_by_name("soto", region, 1,
                                                   env.regional["soto"])) }
    ELSE IF branch = "salad"
    THEN { Both(suggest_western_recipes_by_name(env.western["salad"], env.decodeCaught),
                suggest_indonesian_recipes_by_name("rujak", region, 1,
                                                   env.regional["rujak"])) }
    ELSE get_random_recipes(1, env)

\* lines 378-382: the candidate the region appends
region_candidates(region, env) ==
    IF Truthy(region)
    THEN suggest_indonesian_recipes_by_name("", lower(region), 1, env.regional[""])
    ELSE Return(<<>>)

\* lines 384-390: the first recipe of every id, in order
RECURSIVE unique_from(_, _)
unique_from(recs, seen) ==
    IF recs = <<>> THEN <<>>
    ELSE IF Head(recs).id \in seen THEN unique_from(Tail(recs), seen)
    ELSE <<Head(recs)>> \o unique_from(Tail(recs), seen \cup { Head(recs).id })

unique_adjacent(recs) ==
    LET kept == SelectSeq([i \in 1..Len(recs) |->
                              [r |-> recs[i], dup |-> i > 1 /\ recs[i - 1].id = recs[i].id]],
                          LAMBDA x : ~x.dup)
    IN  [i \in 1..Len(kept) |-> kept[i].r]
unique_recommendations(recs) == unique_from(recs, {})

\* the result of a call of the engine: the branch taken, the candidates
\* appended (recommendations, when a client raises those appended until then)
\* and the list returned (value)
Recommended(branch, recs, number) ==
    [raised |-> FALSE, branch |-> branch, recommendations |-> recs,
     value |-> Take(unique_recommendations(recs), number)]
RecommendRaise(branch, recs) ==
    [raised |-> TRUE, branch |-> branch, recommendations |-> recs, value |-> <<>>]

\* lines 356-391: the possible results of the engine
get_recommendations_based_on_weather_and_region(weather, region, number, env) ==
    IF weather.none
    THEN { IF o.raised THEN RecommendRaise("none", <<>>)
           ELSE [raised |-> FALSE, branch |-> "none", recommendations |-> <<>>,
                 value |-> o.value] : o \in get_random_recipes(number, env) }
    ELSE LET branch == weather_branch(weather)
         IN  { IF o.raised THEN RecommendRaise(branch, o.value)
               ELSE LET g == region_candidates(region, env)
                    IN  IF g.raised THEN RecommendRaise(branch, o.value)
                        ELSE Recommended(branch, o.value \o g.value, number)
               : o \in weather_candidates(branch, region, env) }

\* --------------------------------------------------------- related searches
\* lines 395-401: the curated seeds (two of them carry a region)
seed_searches == <<
    [query |-> "soto", cuisine |-> "indonesian", title |-> "Soto Ayam", count |-> 10],
    [query |-> "salad", cuisine |-> "western", title |-> "Fresh Salad", count |-> 8],
    [query |-> "rendang", cuisine |-> "indonesian", region |-> "Sumatra",
     title |-> "Beef Rendang", count |-> 12],
    [query |-> "pasta", cuisine |-> "western", title |-> "Creamy Pasta", count |-> 7],
    [query |-> "gudeg", cuisine |-> "indonesian", region |-> "Java",
     title |-> "Gudeg Jogja", count |-> 9] >>

\* line 403
soup_seed == [query |-> "soup", cuisine |-> "western", title |-> "Warm Soup", count |-> 15]

\* line 402: weather and "rain" in weather["weather_main"].lower()
mentions_rain(weather) == ~weather.none /\ Contains("rain", lower(weather.weather_main))

\* line 406: order_by(SearchHistory.count.desc()).limit(n): the n rows of the
\* highest count; the store orders rows of equal count as it likes
RECURSIVE order_by_count_desc_limit(_, _)
order_by_count_desc_limit(rows, n) ==
    IF n = 0 \/ rows = {} THEN { <<>> }
    ELSE UNION { { <<x>> \o rest : rest \in order_by_count_desc_limit(rows \ {x}, n - 1) }
                 : x \in { r \in rows : \A y \in rows : y.count <= r.count } }

\* lines 411-418
persisted_search(row) ==
    [query |-> row.query, cuisine |-> row.cuisine, region |-> row.region,
     title |-> title(row.query), count |-> row.count]

\* line 420: {s["query"]: s for s in searches}.values(): one record per query
\* text, in the order the texts first appear, each the last record of its text
dict_values_keep_first(searches) ==
    LET firsts == SelectSeq([i \in 1..Len(searches) |-> i],
                            LAMBDA i : \A j \in 1..(i - 1) :
                                          searches[j].query # searches[i].query)
    IN  [k \in 1..Len(firsts) |-> searches[firsts[k]]]
dict_values(searches) ==
    LET firsts == SelectSeq([i \in 1..Len(searches) |-> i],
                            LAMBDA i : \A j \in 1..(i - 1) :
                                          searches[j].query # searches[i].query)
        last_of(q) == CHOOSE i \in 1..Len(searches) :
                         /\ searches[i].query = q
                         /\ \A j \in (i + 1)..Len(searches) : searches[j].query # q
    IN  [k \in 1..Len(firsts) |-> searches[last_of(searches[firsts[k]].query)]]

\* line 421: sorted(..., key=count, reverse=True): stable, equal counts keep
\* their order
RECURSIVE sorted_by_count_desc(_)
sorted_by_count_desc(seq) ==
    IF seq = <<>> THEN <<>>
    ELSE LET init == sorted_by_count_desc(SubSeq(seq, 1, Len(seq) - 1))
             x    == seq[Len(seq)]
             n    == Cardinality({ i \in 1..Len(init) : init[i].count >= x.count })
         IN  SubSeq(init, 1, n) \o <<x>> \o SubSeq(init, n + 1, Len(init))

\* lines 422-423
flag_popular_from_ten(s) == [k \in DOMAIN s \cup {"is_popular"} |->
                      IF k = "is_popular" THEN s.count >= 10 ELSE s[k]]
flag_popular(s) == [k \in DOMAIN s \cup {"is_popular"} |->
                      IF k = "is_popular" THEN s.count > 10 ELSE s[k]]

\* lines 393-424, for the rows the history query returned (popular_searches)
related_searches(weather, popular_searches) ==
    LET seeds    == IF mentions_rain(weather) THEN <<soup_seed>> \o seed_searches
                    ELSE seed_searches
        searches == seeds \o [i \in 1..Len(popular_searches) |->
                                 persisted_search(popular_searches[i])]
        top      == Take(sorted_by_count_desc(dict_values(searches)), 5)
    IN  [i \in 1..Len(top) |-> flag_popular(top[i])]

\* lines 405-409: the possible results of get_related_searches; a failing
\* history query is logged and counts as no persisted entry
get_related_searches(weather, rows, queryFails) ==
    IF queryFails THEN { related_searches(weather, <<>>) }
    ELSE { related_searches(weather, p) : p \in order_by_count_desc_limit(rows, 5) }

\* ------------------------------------------------------------ the calls
NoCall == [fn |-> "none"]

\* the answers of a provider whose result list is under `key`, and of one
\* whose body is the list
DictBodies(records, key) ==
    { NoBody, JsonList(<<>>), JsonDict({}, FALSE, <<>>), JsonDict({key}, TRUE, <<>>) }
    \cup { JsonDict({key}, FALSE, xs) : xs \in SeqsUpTo(records, MaxMeals) }
ListBodies(records) ==
    { NoBody, JsonDict({}, FALSE, <<>>), JsonDict({"status"}, FALSE, <<>>) }
    \cup { JsonList(xs) : xs \in SeqsUpTo(records, MaxMeals) }
\* a provider answers 200 with any of the bodies, an error status with an
\* error text or with a well-formed body
Responses(bodies) ==
    { Transport } \cup { Http(200, b) : b \in bodies }
    \cup { Http(st, b) : st \in ErrorStatuses,
                          b \in { x \in bodies : x.kind = "notjson" \/ Len(x.items) = 1 } }

SpoonResponses      == Responses(DictBodies(SpoonRecords, "results"))
IngredientResponses == Responses(ListBodies(SpoonRecords))
MealResponses       == Responses(DictBodies(MealRecords, "meals"))

\* the worlds the engine is called in: the Western provider is down, or
\* answers every query with one record or with three; the regional provider
\* likewise for a named query, and on its own for the empty query
SpoonAnswer ==
    [q \in { "soup", "salad", "main course" } |->
        IF q = "soup" THEN [id |-> 1, title |-> "Chicken Soup",
                            image |-> "https://img.example/1.jpg"]
        ELSE IF q = "salad" THEN [id |-> 12, title |-> "Greek Salad"]
        ELSE [id |-> 3, title |-> "Beef Stew", image |-> ""]]
MealGado ==
    [idMeal |-> "54", strMeal |-> "Gado Gado", strArea |-> "West Java",
     strCategory |-> "Vegetarian", strMealThumb |-> "https://img.example/54.jpg"]
MealAnswer ==
    [q \in { "soto", "rujak", "indonesian", "" } |->
        IF q = "soto" THEN [idMeal |-> "52", strMeal |-> "Soto Betawi",
                            strArea |-> "Indonesian", strCategory |-> "Beef",
                            strMealThumb |-> "https://img.example/52.jpg"]
        ELSE IF q = "rujak" THEN [idMeal |-> "56", strMeal |-> "Rujak Buah",
                                  strArea |-> "Indonesian", strCategory |-> "Side",
                                  strMealThumb |-> ""]
        ELSE IF q = "indonesian" THEN MealGado
        ELSE [idMeal |-> "52", strMeal |-> "Soto Betawi", strArea |-> "Indonesian",
              strCategory |-> "Beef", strMealThumb |-> "https://img.example/52.jpg"]]
Worlds ==
    { [western  |-> [q \in DOMAIN SpoonAnswer |->
                        IF w = 0 THEN Transport
                        ELSE Http(200, JsonDict({"results"}, FALSE,
                                 IF w = 1 THEN <<SpoonAnswer[q]>>
                                 ELSE <<SpoonAnswer[q], SpoonAnswer["soup"], SpoonAnswer[q]>>))],
       regional |-> [q \in DOMAIN MealAnswer |->
                        IF q = "" THEN r2
                        ELSE IF r1 = 0 THEN Transport
                        ELSE Http(200, JsonDict({"meals"}, FALSE,
                                 IF r1 = 1 THEN <<MealAnswer[q]>>
                                 ELSE <<MealGado, MealAnswer[q]>>))],
       users |-> u, decodeCaught |-> TRUE] :
      w  \in 0..2, r1 \in 0..2,
      r2 \in { Transport, Http(404, NoBody),
               Http(200, JsonDict({"meals"}, FALSE, <<MealAnswer[""]>>)),
               Http(200, JsonDict({"meals"}, FALSE, <<[strMeal |-> "Soto Java"]>>)) },
      u  \in { <<>>, <<[id |-> 1, title |-> "Sayur Asem", image |-> None]>> } }

\* the tables of search_history: every choice of a count for every row
RECURSIVE tables_from(_)
tables_from(rows) ==
    IF rows = <<>> THEN { {} }
    ELSE LET r == Head(rows)
         IN  { IF c = 0 THEN T
               ELSE T \cup { [id |-> r[1], query |-> r[2], cuisine |-> r[3],
                              region |-> r[4], count |-> c] }
               : c \in r[5], T \in tables_from(Tail(rows)) }
HistoryTables == tables_from(HistoryRows)

\* ---------------------------------------------------------------- Init
Init ==
    /\ interactions = {}
    /\ recipes = [i \in UserRecipeIds |-> [likes |-> 0, saves |-> 0]]
    /\ cookie = [s \in Sessions |-> {}]
    /\ req = EmptyBag
    /\ started = 0
    /\ last = NoLast
    /\ sameUser = FALSE
    /\ leaked = FALSE
    /\ history = {}
    /\ sreq = EmptyBag
    /\ sstarted = 0
    /\ completed = [t \in Logged |-> 0]
    /\ slast = NoSLast
    /\ soverlap = FALSE
    /\ call = NoCall

\* the store after user 1 has liked user recipe 1 (one request, lines 747-758),
\* with no request in flight
LikedStore ==
    Flush({}, [i \in UserRecipeIds |-> [likes |-> 0, saves |-> 0]],
          [sid |-> 1, source |-> "user", recipe_id |-> 1, action |-> "like",
           existing |-> NoRow, user_recipe |-> [found |-> TRUE, likes |-> 0, saves |-> 0]])

LikedInit ==
    /\ interactions = LikedStore.interactions
    /\ recipes = LikedStore.recipes
    /\ cookie = [s \in Sessions |-> {}]
    /\ req = EmptyBag
    /\ started = 0
    /\ last = NoLast
    /\ sameUser = FALSE
    /\ leaked = FALSE
    /\ history = {}
    /\ sreq = EmptyBag
    /\ sstarted = 0
    /\ completed = [t \in Logged |-> 0]
    /\ slast = NoSLast
    /\ soverlap = FALSE
    /\ call = NoCall

\* ------------------------------------------------------------- /interact
\* request q leaves the handler with status st: the finally clause pops the
\* guard key and the response stores the session in the browser's cookie
Finish(q, st) ==
    LET sess2 == session_pop(q.sess, session_key(q))
    IN  /\ req' = Remove(req, q)
        /\ cookie' = [cookie EXCEPT ![q.sid] = sess2]
        /\ last' = Summary(q, st)

\* a request in flight when another one arrives: it no longer runs alone
Overlapped(B) ==
    IF \A q \in BagToSet(B) : q.overlap THEN B
    ELSE SetToBag({ [q EXCEPT !.overlap = TRUE, !.pre = NoDb] : q \in BagToSet(B) })

\* lines 717-726: read the form, test and set the session guard
Begin(s, src, i, a) ==
    /\ BagCardinality(req) < NumWorkers
    /\ started < MaxRequests
    /\ started' = started + 1
    /\ LET key == <<userOf[s], src, i, a>>
           q0  == [pc |-> "locked", sid |-> s, source |-> src, recipe_id |-> i,
                   action |-> a, sess |-> cookie[s], existing |-> NoRow,
                   user_recipe |-> NoRecipe, overlap |-> (InFlight # {}),
                   pre |-> IF InFlight # {} THEN NoDb
                           ELSE [interactions |-> interactions, recipes |-> recipes]]
       IN  /\ sameUser' = (sameUser \/ \E q \in InFlight : userOf[q.sid] = userOf[s])
           /\ IF key \in cookie[s]
              THEN \* session.get(session_key) is set: 429, nothing else happens
                   /\ req' = req
                   /\ last' = Summary(q0, 429)
                   /\ leaked' = (leaked \/ ~\E q \in InFlight :
                                     q.sid = s /\ session_key(q) = key)
              ELSE /\ req' = Overlapped(req)
                               (+) SetToBag({[q0 EXCEPT !.sess = cookie[s] \cup {key}]})
                   /\ last' = last
                   /\ leaked' = leaked
    /\ UNCHANGED <<interactions, recipes, cookie>>
    /\ UNCHANGED <<svars, cvars>>

\* lines 728-730: existing = Interaction.query.filter_by(...).first()
ReadExisting(q) ==
    /\ q.pc = "locked"
    /\ LET found == KeyRows(interactions, session_key(q))
       IN  \E x \in (IF found = {} THEN {NoRow} ELSE found) :
              req' = Replace(req, q, [q EXCEPT !.pc = "q1", !.existing = x])
    /\ UNCHANGED <<interactions, recipes, cookie, started, last, sameUser, leaked>>
    /\ UNCHANGED <<svars, cvars>>

\* lines 732-736: load the user recipe, 404 when source is "user" and it is missing
ReadRecipe_after_toggle(q) ==
    /\ q.pc = "q1"
    /\ LET ur == IF q.source = "user" THEN get(recipes, q.recipe_id) ELSE NoRecipe
       IN  IF q.source = "user" /\ ~ur.found
           THEN /\ Finish(q, 404)
                /\ interactions' = Flush(interactions, recipes, q).interactions
           ELSE /\ req' = Replace(req, q, [q EXCEPT !.pc = "q2", !.user_recipe = ur])
                /\ UNCHANGED <<cookie, last, interactions>>
    /\ UNCHANGED <<recipes, started, sameUser, leaked>>
    /\ UNCHANGED <<svars, cvars>>
ReadRecipe(q) ==
    /\ q.pc = "q1"
    /\ LET ur == IF q.source = "user" THEN get(recipes, q.recipe_id) ELSE NoRecipe
       IN  IF q.source = "user" /\ ~ur.found
           THEN Finish(q, 404)
           ELSE /\ req' = Replace(req, q, [q EXCEPT !.pc = "q2", !.user_recipe = ur])
                /\ UNCHANGED <<cookie, last>>
    /\ UNCHANGED <<interactions, recipes, started, sameUser, leaked>>
    /\ UNCHANGED <<svars, cvars>>

\* lines 738-758: the toggle, flushed and committed in one transaction
Commit(q) ==
    /\ q.pc = "q2"
    /\ LET f == Flush(interactions, recipes, q)
       IN  /\ interactions' = f.interactions
           /\ recipes' = f.recipes
    /\ req' = Replace(req, q, [q EXCEPT !.pc = "committed"])
    /\ UNCHANGED <<cookie, started, last, sameUser, leaked>>
    /\ UNCHANGED <<svars, cvars>>

\* lines 760-780 and 785-786: the queries of the JSON answer succeed, the
\* guard is released
Respond(q) ==
    /\ q.pc = "committed"
    /\ Finish(q, 200)
    /\ UNCHANGED <<interactions, recipes, started, sameUser, leaked>>
    /\ UNCHANGED <<svars, cvars>>

\* lines 781-786: a store operation inside the try block raises (a query, the
\* flush or the commit; also a query after the commit): rollback, 500
Fail(q) ==
    /\ q.pc \in { "locked", "q1", "q2", "committed" }
    /\ LET f  == IF q.pc = "q2" THEN Flush(interactions, recipes, q)
                 ELSE [interactions |-> interactions, recipes |-> recipes]
           db == rollback([interactions |-> interactions, recipes |-> recipes], f)
       IN  /\ interactions' = db.interactions
           /\ recipes' = db.recipes
    /\ Finish(q, 500)
    /\ UNCHANGED <<started, sameUser, leaked>>
    /\ UNCHANGED <<svars, cvars>>

\* ------------------------------------------------------- GET / and /api/suggest
SFinish(q, st) ==
    /\ sreq' = Remove(sreq, q)
    /\ slast' = [status |-> st, histFailed |-> q.histFailed]

\* lines 434-442 and 514-521: read the query parameters; without a query the
\* history block is skipped (and lines 535-537, 461: nothing is looked up
\* unless /api/suggest got a region)
SBegin(e, t) ==
    /\ BagCardinality(sreq) < NumWorkers
    /\ sstarted < MaxSearches
    /\ sstarted' = sstarted + 1
    /\ soverlap' = (soverlap \/ SInFlight # {})
    /\ LET q0 == [pc |-> "hist", triple |-> t, existing |-> NoHist,
                  tx |-> "active", histFailed |-> FALSE]
       IN  IF t[1] # ""
           THEN /\ sreq' = sreq (+) SetToBag({q0})
                /\ slast' = slast
           ELSE IF e = "suggest" /\ t[3] # "All Regions"
           THEN /\ sreq' = sreq (+) SetToBag({[q0 EXCEPT !.pc = "lookup"]})
                /\ slast' = slast
           ELSE /\ sreq' = sreq
                /\ slast' = [status |-> 200, histFailed |-> FALSE]
    /\ UNCHANGED <<history, completed>>
    /\ UNCHANGED <<ivars, cvars>>

\* lines 444 and 523: existing = ....filter_by(...).first()
SReadHist(q) ==
    /\ q.pc = "hist"
    /\ LET found == hist_filter_by(history, q.triple)
       IN  \E x \in (IF found = {} THEN {NoHist} ELSE found) :
              sreq' = Replace(sreq, q, [q EXCEPT !.pc = "histq", !.existing = x])
    /\ UNCHANGED <<history, sstarted, completed, slast, soverlap>>
    /\ UNCHANGED <<ivars, cvars>>

\* lines 445-451 and 524-530: count += 1 or a new row, committed
SCommitHist(q) ==
    /\ q.pc = "histq"
    /\ history' = HistFlush(history, q)
    /\ completed' = [completed EXCEPT ![q.triple] = @ + 1]
    /\ sreq' = Replace(sreq, q, [q EXCEPT !.pc = "lookup"])
    /\ UNCHANGED <<sstarted, slast, soverlap>>
    /\ UNCHANGED <<ivars, cvars>>

\* lines 452-454 and 531-533: the history block raises and the error is
\* swallowed.  A failed query leaves the session's transaction usable; a failed
\* commit leaves it unusable until a rollback, and nothing is stored
SFailHist(q) ==
    /\ q.pc \in { "hist", "histq" }
    /\ sreq' = Replace(sreq, q,
                 [q EXCEPT !.pc = "lookup", !.histFailed = TRUE,
                    !.tx = history_except(IF q.pc = "histq" THEN "inactive"
                                          ELSE "active")])
    /\ UNCHANGED <<history, sstarted, completed, slast, soverlap>>
    /\ UNCHANGED <<ivars, cvars>>

\* lines 457-468 and 539-547: weather, recommendations and the provider lookup
SLookup(q) ==
    /\ q.pc = "lookup"
    /\ sreq' = Replace(sreq, q, [q EXCEPT !.pc = "userq"])
    /\ UNCHANGED <<history, sstarted, completed, slast, soverlap>>
    /\ UNCHANGED <<ivars, cvars>>

\* lines 469-481 and 549-553: the user-recipe query and the answer; the query
\* raises, uncaught, when the session's transaction is unusable
SUserLookup(q) ==
    /\ q.pc = "userq"
    /\ SFinish(q, IF q.tx = "active" THEN 200 ELSE 500)
    /\ UNCHANGED <<history, sstarted, completed, soverlap>>
    /\ UNCHANGED <<ivars, cvars>>

\* ------------------------------------------------------- provider calls
\* Each call leaves its arguments and its result in call.
\* suggest_western_recipes_by_name(query) against a provider answering resp
WesternByName(resp, decodeCaught) ==
    /\ call' = [fn |-> "western_by_name", resp |-> resp,
                out |-> suggest_western_recipes_by_name(resp, decodeCaught)]
    /\ UNCHANGED <<ivars, svars>>

WesternByIngredients(resp, decodeCaught) ==
    /\ call' = [fn |-> "western_by_ingredients", resp |-> resp,
                out |-> suggest_western_recipes_by_ingredients(resp, decodeCaught)]
    /\ UNCHANGED <<ivars, svars>>

RegionalByName(query, region, number, resp) ==
    /\ call' = [fn |-> "regional_by_name", query |-> query, region |-> region,
                number |-> number, resp |-> resp,
                out |-> suggest_indonesian_recipes_by_name(query, region, number, resp)]
    /\ UNCHANGED <<ivars, svars>>

\* lines 469-470 and 549-550: the user recipes a search adds to its results:
\* title ILIKE %query%, the first five
user_results(query, rows) ==
    LET found == Take(SelectSeq(rows, LAMBDA r : Contains(lower(query), lower(r.title))), 5)
    IN  [i \in 1..Len(found) |-> user_formatted(found[i])]

UserSearch(query, rows) ==
    /\ call' = [fn |-> "user_search", query |-> query, rows |-> rows,
                out |-> Return(user_results(query, rows))]
    /\ UNCHANGED <<ivars, svars>>

\* get_recommendations_based_on_weather_and_region(weather, region, number) in
\* the world env
Recommend(weather, region, number, env) ==
    /\ \E o \in get_recommendations_based_on_weather_and_region(weather, region,
                                                                number, env) :
          call' = [fn |-> "recommend", weather |-> weather, region |-> region,
                   number |-> number, env |-> env, out |-> o]
    /\ UNCHANGED <<ivars, svars>>

\* get_related_searches(weather) over the history table rows
Related(weather, rows, queryFails) ==
    /\ \E o \in get_related_searches(weather, rows, queryFails) :
          call' = [fn |-> "related", weather |-> weather, rows |-> rows,
                   queryFails |-> queryFails, out |-> o]
    /\ UNCHANGED <<ivars, svars>>

Next ==
    \/ \E f \in Forms : Begin(f[1], f[2], f[3], f[4])
    \/ \E q \in InFlight : ReadExisting(q)
    \/ \E q \in InFlight : ReadRecipe(q)
    \/ \E q \in InFlight : Commit(q)
    \/ \E q \in InFlight : Respond(q)
    \/ \E q \in InFlight : Fail(q)

SearchNext ==
    \/ \E e \in Endpoints, t \in Triples : SBegin(e, t)
    \/ \E q \in SInFlight : SReadHist(q)
    \/ \E q \in SInFlight : SCommitHist(q)
    \/ \E q \in SInFlight : SFailHist(q)
    \/ \E q \in SInFlight : SLookup(q)
    \/ \E q \in SInFlight : SUserLookup(q)

vars == <<interactions, recipes, cookie, req, started, last, sameUser, leaked,
          history, sreq, sstarted, completed, slast, soverlap, call>>

\* the interact requests of concurrent workers
Spec == Init /\ [][Next]_vars

\* the same requests, issued when the store already holds a like
LikedSpec == LikedInit /\ [][Next]_vars

\* a call is made when none is under way
CallNext ==
    \/ /\ call = NoCall
       /\ \E resp \in SpoonResponses, d \in BOOLEAN : WesternByName(resp, d)
    \/ /\ call = NoCall
       /\ \E resp \in IngredientResponses, d \in BOOLEAN : WesternByIngredients(resp, d)
    \/ /\ call = NoCall
       /\ \E q \in Queries, g \in Regions, n \in Numbers, resp \in MealResponses :
             RegionalByName(q, g, n, resp)
    \/ /\ call = NoCall
       /\ \E q \in Queries, rows \in SeqsUpTo(UserRows, MaxMeals) : UserSearch(q, rows)
    \/ /\ call = NoCall
       /\ \E w \in Weathers, g \in EngineRegions, n \in EngineNumbers, env \in Worlds :
             Recommend(w, g, n, env)
    \/ /\ call = NoCall
       /\ \E w \in { x \in Weathers : x.none \/ x.temp = 25 }, rows \in HistoryTables,
             f \in BOOLEAN : Related(w, rows, f)

\* the search requests of concurrent workers
SearchSpec == Init /\ [][SearchNext]_vars

\* the calls of the provider clients, the recommendation engine and the
\* related searches, each in any world
CallSpec == Init /\ [][CallNext]_vars

Quiescent == req = EmptyBag

\* request q, which ran alone, leaves the handler with status st
EndsAlone(q, st) ==
    /\ ~q.overlap
    /\ req' = EmptyBag /\ last'.status = st

LikeRows(rows, i, a) ==
    { x \in rows : x.recipe_source = "user" /\ x.recipe_id = i /\ x.interaction_type = a }

\* ------------------------------------------------------------------ claims
\* C1: a successful interact request is a two-state toggle of its key: with no
\* record for the key before it, exactly one record for the key exists after it
\* and the matching counter is one higher (source "user" only); with a record
\* before it, no record for the key exists after it and the matching counter is
\* one lower, floored at 0 (source "user" only).
C1_Toggle ==
    [][\A q \in InFlight : EndsAlone(q, 200) =>
          LET k      == session_key(q)
              before == KeyRows(q.pre.interactions, k)
              after  == KeyRows(interactions', k)
              n      == KeyCount(q.pre.recipes, k)
          IN  /\ before = {} => /\ Cardinality(after) = 1
                                /\ k[2] = "user" => KeyCount(recipes', k) = n + 1
              /\ before # {} => /\ after = {}
                                /\ k[2] = "user" => KeyCount(recipes', k) = Max0(n - 1)
              /\ k[2] # "user" => recipes' = q.pre.recipes]_vars

\* C2: two successful interact requests for the same key of a user recipe, run
\* one right after the other from the ABSENT state with counter n, end in the
\* ABSENT state with the counter at n again.
C2_TwiceRestores ==
    (Quiescent /\ last.second) =>
        /\ KeyRows(interactions, last.key) = {}
        /\ KeyCount(recipes, last.key) = last.orig

C2_Witness == Quiescent /\ last.second /\ last.orig >= 1

\* C3: a request issued while another request with the identical key
\* (user, source, recipe id, action) is still in flight is rejected with 429
\* and toggles nothing, so two requests with one key are never both past the
\* guard.
C3_DuplicateRejected ==
    /\ \A q \in InFlight : CopiesIn(q, req) = 1
    /\ \A p, q \in InFlight : p # q => session_key(p) # session_key(q)

\* C4: once a request that set the guard key has ended, by any exit path, its
\* key is gone from the session: every guard key a browser session stores
\* belongs to a request still in flight, and no request is ever rejected by a
\* key that no request in flight holds.
C4_GuardReleased ==
    /\ ~leaked
    /\ \A s \in Sessions : \A k \in cookie[s] :
          \E q \in InFlight : q.sid = s /\ session_key(q) = k

C4_Witness ==
    /\ Quiescent /\ started = MaxRequests
    /\ last.status \in { 404, 500 }
    /\ \A s \in Sessions : cookie[s] = {}

\* C5: when a store operation of an interact request raises, the request
\* answers 500 and the Interaction records and the counters of every user
\* recipe are what they were before the request.
C5_FailureRollsBack ==
    [][\A q \in InFlight : EndsAlone(q, 500) =>
          /\ interactions' = q.pre.interactions
          /\ recipes' = q.pre.recipes]_vars

\* C6: there is never more than one Interaction record per
\* (user, source, recipe id, kind).
C6_UniqueInteraction ==
    \A x, y \in interactions :
        ( /\ x.user_id = y.user_id /\ x.recipe_source = y.recipe_source
          /\ x.recipe_id = y.recipe_id /\ x.interaction_type = y.interaction_type ) => x = y

\* C7: when only toggles of different users ran concurrently and all have
\* ended, every user recipe's likes (saves) counter equals the number of like
\* (save) records for it.
C7_CountersMatch ==
    (Quiescent /\ ~sameUser) =>
        \A i \in UserRecipeIds :
            /\ recipes[i].likes = Cardinality(LikeRows(interactions, i, "like"))
            /\ recipes[i].saves = Cardinality(LikeRows(interactions, i, "save"))

\* the history entries of triple t
EntriesOf(t) ==
    { x \in history : x.query = t[1] /\ x.cuisine = t[2] /\ x.region = t[3] }

\* C8: as long as search requests ran one after the other, every triple with a
\* query has no history entry before its first recorded search and after that
\* exactly one, whose count is the number of searches recorded for the triple.
C8_OneEntryCounts ==
    ~soverlap =>
        \A t \in Logged :
            LET rows == EntriesOf(t)
            IN  IF completed[t] = 0 THEN rows = {}
                ELSE \E x \in rows : rows = {x} /\ x.count = completed[t]

C8_Witness ==
    /\ ~soverlap
    /\ completed[<<"soto", "indonesian", "Java">>] = 3
    /\ \E x \in history : x.query = "soto" /\ x.region = "Java" /\ x.count = 3

\* C9: a search request whose history update failed still ends with its
\* search results (status 200).
C9_SearchSurvives == slast.histFailed => slast.status = 200

\* C10: in every state there is at most one history entry per triple, and its
\* count is the number of requests that completed their history update.
C10_UniqueHistory ==
    \A t \in Logged :
        LET rows == EntriesOf(t)
        IN  /\ Cardinality(rows) <= 1
            /\ \A x \in rows : x.count = completed[t]

\* -------------------------------------------------- claims on the calls
IsPrefix(p, q) == Len(p) <= Len(q) /\ SubSeq(q, 1, Len(p)) = p

\* the call in `call` is a call of the engine with weather that returned
EngineCall == call.fn = "recommend" /\ ~call.weather.none

\* the branch the decision table of the claim selects, reading "rain" in text
TableBranch(text, temp) ==
    IF Contains("rain", lower(text)) \/ temp < 20 THEN "soup"
    ELSE IF temp > 30 THEN "salad" ELSE "random"

\* C11 as stated: with weather present the engine takes the soup branch when
\* the weather's condition text contains "rain" or the temperature is below
\* 20, otherwise the salad branch when the temperature is above 30, otherwise
\* the random branch.
C11_ConditionText ==
    EngineCall =>
        call.out.branch = TableBranch(call.weather.condition, call.weather.temp)

\* C11 amended: the same table read on the weather's main condition
\* (weather_main), not on its description text: rain in the main condition or
\* a temperature below 20 selects soup, also above 30; otherwise a temperature
\* above 30 selects salad; otherwise, 20 and 30 included, random.  The
\* candidates appended first are those of that one branch.
C11_BranchPrecedence ==
    EngineCall =>
        LET w    == call.weather
            rain == Contains("rain", lower(w.weather_main))
            b    == call.out.branch
        IN  /\ (rain \/ w.temp < 20) => b = "soup"
            /\ (~rain /\ w.temp > 30) => b = "salad"
            /\ (~rain /\ w.temp >= 20 /\ w.temp <= 30) => b = "random"
            /\ ~call.out.raised =>
                 \E o \in weather_candidates(TableBranch(w.weather_main, w.temp),
                                             call.region, call.env) :
                    ~o.raised /\ IsPrefix(o.value, call.out.recommendations)

\* rain in the main condition at a temperature above 30: soup, with the
\* Western soup answer appended first
C11_Witness ==
    /\ EngineCall /\ ~call.out.raised
    /\ call.weather.weather_main = "Rain" /\ call.weather.temp = 31
    /\ call.out.branch = "soup"
    /\ Len(call.out.recommendations) >= 1
    /\ call.out.recommendations[1].title = "Chicken Soup"

\* the positions of recs that hold the first recipe of their id
FirstPositions(recs) ==
    SelectSeq([i \in 1..Len(recs) |-> i],
              LAMBDA i : \A j \in 1..(i - 1) : recs[j].id # recs[i].id)

\* C12: the list the engine returns (weather present) holds no two recipes of
\* one id; it is the sequence of appended candidates without the later
\* occurrences of an id already seen, in the order of insertion, cut to its
\* first `number` elements, so never longer than `number`.
C12_FirstOccurrences ==
    (EngineCall /\ ~call.out.raised) =>
        LET recs  == call.out.recommendations
            value == call.out.value
            keep  == FirstPositions(recs)
            n     == IF call.number < Len(keep) THEN call.number ELSE Len(keep)
        IN  /\ Len(value) = n
            /\ \A k \in 1..n : value[k] = recs[keep[k]]
            /\ \A i, j \in 1..Len(value) : i # j => value[i].id # value[j].id
            /\ Len(value) <= call.number

\* an id comes back after another id, and more ids were appended than asked for
C12_Witness ==
    /\ EngineCall /\ ~call.out.raised
    /\ LET recs == call.out.recommendations
       IN  /\ \E i, j \in 1..Len(recs) : i + 1 < j /\ recs[i].id = recs[j].id
                                         /\ recs[i + 1].id # recs[i].id
           /\ Len(FirstPositions(recs)) > call.number
           /\ Len(call.out.value) = call.number /\ call.number >= 2

\* the provider did not answer, or answered with a status other than 200
ProviderFailed == call.resp.kind = "transport" \/ call.resp.status # 200

ClientCall == call.fn \in { "western_by_name", "western_by_ingredients", "regional_by_name" }

\* the catalog entries whose title contains the query of the call
CatalogMatches ==
    { i \in 1..Len(fallback_recipes) :
        Contains(lower(strip(call.query)), lower(fallback_recipes[i].title)) }

\* C13 as stated: for each of the three provider clients a non-200 response or
\* a transport exception yields an empty list, and no exception propagates.
C13_EmptyOnFailure ==
    (ClientCall /\ ProviderFailed) => call.out = Return(<<>>)

\* C13 amended: on a non-200 response or a transport exception no client
\* raises; the two Western clients return an empty list; the regional client
\* returns entries of the fallback catalog whose title contains the query,
\* none only when the catalog has no such entry.
C13_DegradesOnFailure ==
    (ClientCall /\ ProviderFailed) =>
        /\ ~call.out.raised
        /\ call.fn # "regional_by_name" => call.out.value = <<>>
        /\ call.fn = "regional_by_name" =>
             /\ \A k \in 1..Len(call.out.value) :
                   \E i \in CatalogMatches :
                      /\ call.out.value[k].id = fallback_recipes[i].id
                      /\ call.out.value[k].source = "fallback"
             /\ (call.out.value = <<>>) <=> (CatalogMatches = {})

\* the Western provider answers 500 with a body that would parse
C13_Witness ==
    /\ call.fn = "western_by_name"
    /\ call.resp.kind = "http" /\ call.resp.status = 500
    /\ call.resp.body.kind = "dict" /\ Len(call.resp.body.items) = 1
    /\ IsDict(call.resp.body.items[1]) /\ "id" \in DOMAIN call.resp.body.items[1]
    /\ call.out = Return(<<>>)

\* the body of a 200 answer is not what the client of the call expects: not
\* JSON, not the expected container, or a record that is no object or lacks
\* its id or its title
Malformed ==
    LET body  == call.resp.body
        idKey == IF call.fn = "regional_by_name" THEN "idMeal" ELSE "id"
        tKey  == IF call.fn = "regional_by_name" THEN "strMeal" ELSE "title"
    IN  \/ body.kind = "notjson"
        \/ body.kind # (IF call.fn = "western_by_ingredients" THEN "list" ELSE "dict")
        \/ call.fn = "western_by_name" /\ ("results" \notin body.keys \/ body.null)
        \/ call.fn = "regional_by_name" /\ "meals" \notin body.keys
        \/ \E i \in 1..Len(body.items) :
              \/ ~IsDict(body.items[i])
              \/ { idKey, tKey } \ DOMAIN body.items[i] # {}

\* C14: a provider client does not raise on a malformed body: for a 200
\* answer whose body is not JSON, not of the expected shape, or holds records
\* without id or title, a Western client returns an empty list and the
\* regional client an empty list or fallback data.
C14_MalformedDegrades ==
    (ClientCall /\ call.resp.kind = "http" /\ call.resp.status = 200 /\ Malformed) =>
        /\ ~call.out.raised
        /\ call.fn # "regional_by_name" => call.out.value = <<>>
        /\ call.fn = "regional_by_name" =>
             \A k \in 1..Len(call.out.value) : call.out.value[k].source = "fallback"

\* C15: every normalized recipe a search path produces (Western by name or by
\* ingredients, regional by name, user recipes) has a non-empty image; on the
\* Western paths it is the provider's image when the record has a non-empty
\* one and the placeholder otherwise, also when the record's image is present
\* but empty or null.
C15_ImageNeverEmpty ==
    ((ClientCall \/ call.fn = "user_search") /\ ~call.out.raised) =>
        /\ \A k \in 1..Len(call.out.value) :
              /\ call.out.value[k].image # ""
              /\ call.out.value[k].image # None
        /\ (call.fn \in { "western_by_name", "western_by_ingredients" }
            /\ Len(call.out.value) = Len(call.resp.body.items)) =>
              \A k \in 1..Len(call.out.value) :
                 LET r == call.resp.body.items[k]
                 IN  call.out.value[k].image =
                       IF "image" \in DOMAIN r /\ r["image"] # "" /\ r["image"] # None
                       THEN r["image"] ELSE DefaultImage

\* the call is a regional search with a region filter other than "All Regions"
RegionalFiltered ==
    /\ call.fn = "regional_by_name"
    /\ call.region # None /\ call.region # "" /\ call.region # "All Regions"

\* the live provider supplied no results: a transport error, a status other
\* than 200, a body that is not JSON, or an empty or null list of meals
NoLiveResults ==
    \/ call.resp.kind = "transport"
    \/ call.resp.status # 200
    \/ call.resp.body.kind = "notjson"
    \/ /\ call.resp.body.kind = "dict" /\ "meals" \in call.resp.body.keys
       /\ (call.resp.body.null \/ call.resp.body.items = <<>>)

\* the ids of the catalog entries, in catalog order, whose title contains the
\* query and whose region is the region of the call, both without regard to case
CatalogIdsForRegion ==
    LET hits == SelectSeq(fallback_recipes,
                   LAMBDA r : /\ Contains(lower(strip(call.query)), lower(r.title))
                              /\ lower(r.region) = lower(call.region))
    IN  [i \in 1..Len(hits) |-> hits[i].id]

\* C16: when the live provider supplies no results, a regional search with
\* query q and a region filter g other than "All Regions" returns exactly the
\* catalog entries whose title contains q and whose region equals g (case
\* ignored), in catalog order, cut to the requested count.
C16_FallbackHonoursRegion ==
    (RegionalFiltered /\ NoLiveResults) =>
        /\ ~call.out.raised
        /\ [k \in 1..Len(call.out.value) |-> call.out.value[k].id]
             = Take(CatalogIdsForRegion, call.number)

\* the call is a call of related searches; its result is call.out
RelatedCall == call.fn = "related"

\* the curated seeds of the call: the five, and the soup seed exactly when
\* the weather mentions rain
SeedsOfCall ==
    { seed_searches[i] : i \in 1..Len(seed_searches) }
    \cup (IF ~call.weather.none /\ Contains("rain", lower(call.weather.weather_main))
          THEN { soup_seed } ELSE {})

\* the choices of the five persisted entries of highest count
TopPersisted ==
    IF call.queryFails THEN { {} }
    ELSE { P \in SUBSET call.rows :
             /\ Cardinality(P) = (IF Cardinality(call.rows) < 5
                                  THEN Cardinality(call.rows) ELSE 5)
             /\ \A x \in P, y \in call.rows \ P : y.count <= x.count }

\* entry e of the result is the seed or the persisted entry m
SameSearch(e, m) == e.query = m.query /\ e.count = m.count /\ e.cuisine = m.cuisine

C20_PersistedBeatsSeed ==
    RelatedCall =>
        \E P \in TopPersisted :
            \A t \in { m.query : m \in SeedsOfCall } \cap { r.query : r \in P } :
                \A i \in 1..Len(call.out) :
                    call.out[i].query = t =>
                        /\ "region" \in DOMAIN call.out[i]
                        /\ \E r \in P : /\ r.query = t
                                        /\ call.out[i].count = r.count
                                        /\ call.out[i].cuisine = r.cuisine
                                        /\ call.out[i].region = r.region

\* the persisted "soto" of count 5 is in the result, the seed of count 10 is
\* not; the persisted "salad" of count 20 is there, the seed of count 8 is not
C20_Witness ==
    /\ RelatedCall /\ ~call.queryFails
    /\ \E i, j \in 1..Len(call.out) :
          /\ call.out[i].query = "soto" /\ call.out[i].count = 5
          /\ call.out[i].cuisine = "western" /\ call.out[i].region = "All Regions"
          /\ call.out[j].query = "salad" /\ call.out[j].count = 20

\* the meals of a provider that answered with a list of them
LiveMeals ==
    IF /\ call.resp.kind = "http" /\ call.resp.status = 200
       /\ call.resp.body.kind = "dict" /\ "meals" \in call.resp.body.keys
       /\ ~call.resp.body.null
    THEN call.resp.body.items ELSE <<>>

\* the candidates the region filter is applied to: the provider's meals, or,
\* when it has none, the catalog entries whose title contains the query
Candidates ==
    IF LiveMeals # <<>> THEN LiveMeals
    ELSE SelectSeq(fallback_recipes,
                   LAMBDA r : Contains(lower(strip(call.query)), lower(r.title)))

\* record r passes the region filter of the call: the region is part of its
\* area, category or name, or is its region, case ignored
PassesFilter(r) ==
    LET g == lower(call.region)
        field(k) == IF k \in DOMAIN r THEN lower(r[k]) ELSE ""
    IN  \/ Contains(g, field("strArea")) \/ Contains(g, field("strCategory"))
        \/ Contains(g, field("strMeal")) \/ field("region") = g

\* the normalized recipe x was made from the record r
MadeFrom(x, r) ==
    IF "idMeal" \in DOMAIN r
    THEN x.source = "themealdb" /\ x.id = r["idMeal"]
    ELSE x.source = "fallback" /\ "id" \in DOMAIN r /\ x.id = r["id"]

\* every meal of the provider is an object with an id and a name
WellFormedMeals ==
    \A i \in 1..Len(LiveMeals) :
        IsDict(LiveMeals[i]) /\ { "idMeal", "strMeal" } \subseteq DOMAIN LiveMeals[i]

\* C18: on a regional search with a region filter other than "All Regions",
\* when no candidate passes the filter the result holds only catalog entries
\* that match the query and the region, and is empty when there is none; no
\* recipe that fails the region filter is ever returned.
C18_NothingOutsideRegion ==
    (RegionalFiltered /\ ~call.out.raised) =>
        LET value == call.out.value
        IN  /\ (call.resp.kind = "http" /\ WellFormedMeals
                /\ \A i \in 1..Len(Candidates) : ~PassesFilter(Candidates[i])) =>
                  [k \in 1..Len(value) |-> value[k].id]
                     = Take(CatalogIdsForRegion, call.number)
            /\ \A k \in 1..Len(value) :
                  \/ \E i \in 1..Len(LiveMeals) :
                        /\ IsDict(LiveMeals[i]) /\ PassesFilter(LiveMeals[i])
                        /\ MadeFrom(value[k], LiveMeals[i])
                  \/ \E i \in 1..Len(fallback_recipes) :
                        /\ PassesFilter(fallback_recipes[i])
                        /\ MadeFrom(value[k], fallback_recipes[i])

\* C19: on a regional search whose provider answered, the result is cut to
\* the requested number only after the region filter: when k >= 1 candidates
\* pass the filter, the result is the first min(k, number) of them, in their
\* order, whatever precedes them in the provider's list.
C19_TruncateAfterFilter ==
    (RegionalFiltered /\ call.resp.kind = "http" /\ WellFormedMeals) =>
        LET passing == SelectSeq(Candidates, PassesFilter)
            n       == IF call.number < Len(passing) THEN call.number ELSE Len(passing)
        IN  passing # <<>> =>
              /\ ~call.out.raised
              /\ Len(call.out.value) = n
              /\ \A k \in 1..n : MadeFrom(call.out.value[k], passing[k])

\* the provider lists a meal that fails the filter before one that passes,
\* one recipe is asked for, and the one that passes is returned
C19_Witness ==
    /\ RegionalFiltered /\ call.number = 1 /\ Len(LiveMeals) = 2 /\ WellFormedMeals
    /\ ~PassesFilter(LiveMeals[1]) /\ PassesFilter(LiveMeals[2])
    /\ ~call.out.raised /\ Len(call.out.value) = 1
    /\ call.out.value[1].id = LiveMeals[2]["idMeal"]

\* ------------------------------------------------------------------ C21
\* the recipes get_random_recipes(1) samples from in the world of the call:
\* the Western answer for "main course", the regional answer for
\* "indonesian" and the first user recipe
RandomPool ==
    LET western == suggest_western_recipes_by_name(call.env.western["main course"],
                                                   call.env.decodeCaught)
        indo    == suggest_indonesian_recipes_by_name("indonesian", None, 1,
                                                      call.env.regional["indonesian"])
        users   == Take(call.env.users, 1)
    IN  [raised |-> western.raised \/ indo.raised,
         value  |-> western.value \o indo.value
                    \o [i \in 1..Len(users) |-> user_formatted(users[i])]]

\* what the region step of the call yields
RegionStep == region_candidates(call.region, call.env)

\* weather of the random branch: no rain (in the main condition as in the
\* description) and a temperature from 20 to 30
MildAndDry ==
    /\ EngineCall
    /\ ~Contains("rain", lower(call.weather.weather_main))
    /\ ~Contains("rain", lower(call.weather.condition))
    /\ call.weather.temp >= 20 /\ call.weather.temp <= 30

\* C21 as stated: with weather present, no rain and a temperature from 20 to
\* 30, the engine appends exactly one random candidate, placed before the
\* region candidate.
C21_ExactlyOneRandom ==
    (MildAndDry /\ ~call.out.raised) =>
        LET recs == call.out.recommendations
        IN  /\ Len(recs) = 1 + Len(RegionStep.value)
            /\ \E i \in 1..Len(RandomPool.value) : recs[1] = RandomPool.value[i]
            /\ SubSeq(recs, 2, Len(recs)) = RegionStep.value

\* C21 amended: with weather present, no rain in the main condition and a
\* temperature from 20 to 30, the engine appends min(1, available) random
\* candidates, available being the number of recipes the random pool holds:
\* one recipe of the pool when there is any, none when every source is
\* empty.  They come first in the candidate sequence, and what follows is
\* what the region step appends.
C21_RandomBeforeRegion ==
    (EngineCall /\ ~Contains("rain", lower(call.weather.weather_main))
       /\ call.weather.temp >= 20 /\ call.weather.temp <= 30) =>
        LET recs == call.out.recommendations
            pool == RandomPool.value
            n    == IF Len(pool) >= 1 THEN 1 ELSE 0
        IN  IF RandomPool.raised THEN call.out.raised /\ recs = <<>>
            ELSE /\ Len(recs) >= n
                 /\ \A k \in 1..n : \E i \in 1..Len(pool) : recs[k] = pool[i]
                 /\ SubSeq(recs, n + 1, Len(recs)) = RegionStep.value
                 /\ call.out.raised = RegionStep.raised

\* 25 degrees and a clear sky, region Java: a recipe of the pool other than
\* its first one was drawn, and the region candidate follows it
C21_Witness ==
    /\ MildAndDry /\ call.weather.temp = 25 /\ call.region = "Java"
    /\ ~call.out.raised
    /\ Len(RandomPool.value) >= 2 /\ Len(RegionStep.value) = 1
    /\ Len(call.out.recommendations) = 2
    /\ call.out.recommendations[1] = RandomPool.value[2]
    /\ call.out.recommendations[1] # RandomPool.value[1]
    /\ call.out.recommendations[2] = RegionStep.value[1]

\* ------------------------------------------------------------------ C22
\* the meals of a provider answer
AnsweredMeals(resp) ==
    IF /\ resp.kind = "http" /\ resp.status = 200
       /\ resp.body.kind = "dict" /\ "meals" \in resp.body.keys /\ ~resp.body.null
    THEN resp.body.items ELSE <<>>

\* record r passes the region filter for region g: no filter for "All
\* Regions", otherwise g is part of its area, category or name, or is its
\* region, case ignored
PassesRegion(r, g) ==
    LET field(k) == IF k \in DOMAIN r THEN lower(r[k]) ELSE ""
    IN  \/ g = "All Regions"
        \/ Contains(lower(g), field("strArea")) \/ Contains(lower(g), field("strCategory"))
        \/ Contains(lower(g), field("strMeal")) \/ field("region") = lower(g)

\* the normalized recipe x comes from a record of the regional pool (a meal
\* of the provider's answer for the empty query, or a catalog entry) that
\* passes the region filter for g
FromRegion(x, g) ==
    LET meals == AnsweredMeals(call.env.regional[""])
    IN  \/ \E i \in 1..Len(meals) :
              IsDict(meals[i]) /\ PassesRegion(meals[i], g) /\ MadeFrom(x, meals[i])
        \/ \E i \in 1..Len(fallback_recipes) :
              PassesRegion(fallback_recipes[i], g) /\ MadeFrom(x, fallback_recipes[i])

\* C22: with weather present and a non-empty region, what the engine appends
\* after the candidates of the weather branch is at most one recipe, the
\* result of the regional search for the empty query with that region and
\* number 1, and it passes the region filter for that region; so too for the
\* home view's default "All Regions".
C22_RegionCandidate ==
    (EngineCall /\ Truthy(call.region) /\ ~call.out.raised) =>
        LET recs    == call.out.recommendations
            claimed == suggest_indonesian_recipes_by_name("", call.region, 1,
                                                          call.env.regional[""])
        IN  \E o \in weather_candidates(call.out.branch, call.region, call.env) :
               /\ ~o.raised /\ IsPrefix(o.value, recs)
               /\ LET added == SubSeq(recs, Len(o.value) + 1, Len(recs))
                  IN  /\ Len(added) <= 1
                      /\ ~claimed.raised /\ added = claimed.value
                      /\ \A k \in 1..Len(added) : FromRegion(added[k], call.region)

\* ------------------------------------------------------------------ C23
\* every user recipe's counters equal its numbers of like and save records
LedgerAgrees(rows, recs) ==
    \A i \in DOMAIN recs :
        /\ recs[i].likes = Cardinality(LikeRows(rows, i, "like"))
        /\ recs[i].saves = Cardinality(LikeRows(rows, i, "save"))

\* every request in flight has run alone since it began
NoneOverlaps == \A q \in InFlight : ~q.overlap

\* C23: from a state in which every user recipe's likes and saves counters
\* equal its numbers of like and save records, every step of an interact
\* request that runs alone (it toggles, is rejected, or fails and is rolled
\* back, for any user) leads to a state in which they are equal again; no
\* counter is ever negative.
C23_LedgerAgreement ==
    [][/\ (LedgerAgrees(interactions, recipes) /\ NoneOverlaps)
            => LedgerAgrees(interactions', recipes')
       /\ \A i \in UserRecipeIds : recipes'[i].likes >= 0 /\ recipes'[i].saves >= 0]_vars

\* three requests one after the other: a like of user recipe 1 by one user,
\* then a like and its undo by another; one like record, counter 1
C23_Witness ==
    /\ Quiescent /\ started = 3 /\ last.second /\ last.orig = 1
    /\ LedgerAgrees(interactions, recipes)
    /\ recipes[1].likes = 1
    /\ Cardinality(LikeRows(interactions, 1, "like")) = 1

\* ------------------------------------------------------------------ C24
\* a step in which request q ends with 404
NotFound(q) == req' = Remove(req, q) /\ last'.status = 404

\* a step in which a request is rejected by the guard
Rejected == started' = started + 1 /\ req' = req /\ last'.status = 429

Commits(q) == q.pc = "q2" /\ req' = Replace(req, q, [q EXCEPT !.pc = "committed"])

\* the rows of keys other than k
OtherRows(rows, k) == rows \ KeyRows(rows, k)

\* between the stores (rows, recs) and (rows2, recs2) nothing outside key k
\* has changed: not a record of another user, source, recipe or kind, not
\* the other counter of the recipe of k, not a counter of another user
\* recipe, and no counter at all when the source of k is not "user"
FrameOf(k, rows, recs, rows2, recs2) ==
    /\ OtherRows(rows2, k) = OtherRows(rows, k)
    /\ \A i \in DOMAIN recs :
          IF k[2] = "user" /\ i = k[3]
          THEN /\ k[4] = "like" => recs2[i].saves = recs[i].saves
               /\ k[4] = "save" => recs2[i].likes = recs[i].likes
          ELSE recs2[i] = recs[i]
    /\ DOMAIN recs2 = DOMAIN recs

\* C25: a toggle for key (u, s, r, k) changes nothing else: the commit
\* leaves every record of another key unchanged, as well as the other
\* counter of recipe r, the counters of every other user recipe and, when s
\* is not "user", every counter, also of a user recipe with id r; and when
\* the request ran alone and ends with 200, the same holds between the store
\* it found and the store it leaves.
C25_ToggleFrame ==
    [][\A q \in InFlight :
          /\ Commits(q) => FrameOf(session_key(q), interactions, recipes,
                                    interactions', recipes')
          /\ EndsAlone(q, 200) => FrameOf(session_key(q), q.pre.interactions,
                                           q.pre.recipes, interactions', recipes')]_vars

=============================================================================
